---- MODULE Spec2Model ----
(***************************************************************************)
(* A model of asyncpg's setup.py build command (class build_ext):          *)
(* initialize_options, finalize_options (staleness loop, Cython lookup and *)
(* version check, directive parsing, cythonize call, change-detection gate)*)
(* and _patch_cfile (three re.sub rewrites of a generated C file).         *)
(*                                                                         *)
(* Texts are sequences of atoms.  A directive string and a version string  *)
(* are sequences of characters.  A C file is a sequence of whitespace      *)
(* characters and of maximal non-blank runs taken from the patterns and    *)
(* replacements of _patch_cfile.                                           *)
(***************************************************************************)
EXTENDS Integers, Sequences, FiniteSets, TLC

\* ------------------------------------------------------------------ bounds
MaxSources == 2
MaxCalls == 2
MaxDirectiveChunks == 3
MaxChunks == 2
MaxWs == 2

\* The setup() call declares one extension module.
NumExtensions == 1

VARIABLES
  initialized,        \* self._initialized, read through getattr(..., False)
  cython_always,      \* self.cython_always
  cython_annotate,    \* self.cython_annotate
  cython_directives,  \* self.cython_directives
  ext_modules,        \* self.distribution.ext_modules: a sequence of source lists
  exists,             \* the files os.path.exists answers true for
  mtime,              \* os.path.getmtime of each file
  content,            \* the text of each generated C file
  cython,             \* what 'import Cython' gives in this process
  call,               \* the locals and outcome of the latest finalize_options call
  readSrc,            \* the text the latest _patch_cfile call read
  calls,              \* finalize_options calls so far
  invocations         \* cythonize calls so far

vars == <<initialized, cython_always, cython_annotate, cython_directives,
          ext_modules, exists, mtime, content, cython, call, readSrc,
          calls, invocations>>

\* ------------------------------------------------------------ Python values
None == <<"None">>
PyBool(b) == [type |-> "bool", text |-> <<b>>]
PyStr(s) == [type |-> "str", text |-> s]

\* str.lower() on the characters the model uses
LowerChar(c) ==
  CASE c = "F" -> "f"
    [] c = "A" -> "a"
    [] c = "L" -> "l"
    [] c = "S" -> "s"
    [] c = "E" -> "e"
    [] c = "T" -> "t"
    [] c = "R" -> "r"
    [] c = "U" -> "u"
    [] OTHER -> c

Lower(s) == [i \in 1..Len(s) |-> LowerChar(s[i])]

\* index of the first occurrence of character sep in s, 0 when there is none
Find(s, sep) ==
  IF \E i \in 1..Len(s) : s[i] = sep
  THEN CHOOSE i \in 1..Len(s) : s[i] = sep /\ \A j \in 1..(i - 1) : s[j] # sep
  ELSE 0

\* str.split(sep)
RECURSIVE Split(_, _)
Split(s, sep) ==
  LET i == Find(s, sep)
  IN IF i = 0 THEN <<s>>
     ELSE <<SubSeq(s, 1, i - 1)>> \o Split(SubSeq(s, i + 1, Len(s)), sep)

\* str.partition(sep)
Partition(s, sep) ==
  LET i == Find(s, sep)
  IN IF i = 0 THEN <<s, <<>>, <<>>>>
     ELSE <<SubSeq(s, 1, i - 1), <<sep>>, SubSeq(s, i + 1, Len(s))>>

FalseText == <<"f", "a", "l", "s", "e">>
TrueText == <<"t", "r", "u", "e">>

\* ------------------------------------------------------- directive parsing
\* One pass of the loop body over a directive: k, _, v = directive.partition('=');
\* v becomes False when v.lower() == 'false'; the next test calls v.lower()
\* again, which raises AttributeError when v is by now a bool.
ParseDirective(directive) ==
  LET p == Partition(directive, "=")
      v0 == PyStr(p[3])
      v1 == IF Lower(v0.text) = FalseText THEN PyBool("False") ELSE v0
      raised == v1.type # "str"
      v2 == IF ~raised /\ Lower(v1.text) = TrueText THEN PyBool("True") ELSE v1
  IN [raised |-> raised, key |-> p[1], val |-> v2]

\* directives[k] = v for each directive in turn, until one raises
RECURSIVE ParseLoop(_, _)
ParseLoop(tokens, directives) ==
  IF tokens = <<>> THEN [raised |-> FALSE, map |-> directives]
  ELSE LET r == ParseDirective(Head(tokens))
       IN IF r.raised THEN [raised |-> TRUE, map |-> directives]
          ELSE ParseLoop(Tail(tokens), (r.key :> r.val) @@ directives)

\* directives = {}; if self.cython_directives: for directive in split(','): ...
ParseDirectives(d) ==
  IF d = None \/ d = <<>> THEN [raised |-> FALSE, map |-> <<>>]
  ELSE ParseLoop(Split(d, ","), <<>>)

\* ------------------------------------------------------------ version check
\* code point of a character of a version string
Ord(c) ==
  CASE c = "." -> 46
    [] c = "0" -> 48
    [] c = "1" -> 49
    [] c = "2" -> 50
    [] c = "3" -> 51
    [] c = "4" -> 52
    [] c = "5" -> 53
    [] c = "6" -> 54
    [] c = "7" -> 55
    [] c = "8" -> 56
    [] c = "9" -> 57

\* Python's < on two str values: lexicographic by code point
RECURSIVE StrLess(_, _)
StrLess(a, b) ==
  IF b = <<>> THEN FALSE
  ELSE IF a = <<>> THEN TRUE
  ELSE IF Ord(Head(a)) # Ord(Head(b)) THEN Ord(Head(a)) < Ord(Head(b))
  ELSE StrLess(Tail(a), Tail(b))

MinVersionText == <<"0", ".", "2", "4">>

\* Cython.__version__ < '0.24'
VersionRejected(version) == StrLess(version, MinVersionText)

\* --------------------------------------------------------------- staleness
\* A path is <<prefix, ext>>, as os.path.splitext gives it.
EndsWithPyx(sfile) == sfile[2] = ".pyx"
CFileOf(sfile) == <<sfile[1], ".c">>

\* a variant of UseExisting that forgets the cython_always flag
UseExistingIgnoringFlag(sfile) ==
  EndsWithPyx(sfile) /\ CFileOf(sfile) \in exists

\* if os.path.exists(cfile) and not self.cython_always, for a .pyx source
UseExisting(sfile) ==
  EndsWithPyx(sfile) /\ CFileOf(sfile) \in exists /\ ~cython_always

\* the else branch of that test is taken for sfile
Regenerate(sfile) == EndsWithPyx(sfile) /\ ~UseExisting(sfile)

\* extension.sources after the loop: extension.sources[i] = cfile
ScanSources(sources) ==
  [i \in 1..Len(sources) |->
     IF UseExisting(sources[i]) THEN CFileOf(sources[i]) ELSE sources[i]]

ScanModules(mods) == [e \in 1..Len(mods) |-> ScanSources(mods[e])]

\* the source entries of all extensions, as a set
Entries(mods) ==
  UNION {{mods[e][i] : i \in 1..Len(mods[e])} : e \in 1..Len(mods)}

\* cfiles after the loop: cfiles[cfile] = os.path.getmtime(cfile) when the
\* file exists, else 0
ScanCFiles(mods) ==
  LET marked == {CFileOf(sfile) : sfile \in {s \in Entries(mods) : Regenerate(s)}}
  IN [cfile \in marked |-> IF cfile \in exists THEN mtime[cfile] ELSE 0]

\* a variant of NeedCythonize that is set by any .pyx source
NeedCythonizeAnyPyx(mods) ==
  cython_always \/ \E sfile \in Entries(mods) : EndsWithPyx(sfile)

\* need_cythonize after the loop: it starts as self.cython_always
NeedCythonize(mods) ==
  cython_always \/ \E sfile \in Entries(mods) : Regenerate(sfile)

\* a variant of PatchGate that patches every file with a baseline
PatchGateEveryFile(cfiles, mtimeAfter) == DOMAIN cfiles

\* the files the gate after cythonize() hands to _patch_cfile:
\* os.path.getmtime(cfile) != timestamp
PatchGate(cfiles, mtimeAfter) ==
  {cfile \in DOMAIN cfiles : mtimeAfter[cfile] # cfiles[cfile]}

\* ------------------------------------------------------------ _patch_cfile
\* A C text is a sequence of atoms: a whitespace character, the newline and
\* indentation that starts a line of a replacement, or a maximal non-blank run
\* of a pattern or replacement (or some other run of text).
Indent12 == "\n            "
Indent16 == "\n                "
IsSpace(c) == c \in {" ", "\n", Indent12, Indent16}

\* A pattern element: a literal run, \s* or \s+ (re.X drops the pattern's own
\* blanks).
Lit(t) == <<"lit", t>>
WsStar == <<"\\s*", "">>
WsPlus == <<"\\s+", "">>

QualnameSig == "__Pyx_Coroutine_get_qualname(__pyx_CoroutineObject"
QualnameIncref == "Py_INCREF(self->gi_qualname);"
NameSig == "__Pyx_Coroutine_get_name(__pyx_CoroutineObject"
NameIncref == "Py_INCREF(self->gi_name);"

\* the coroutine type's field initializers, first re.sub
Pat1 ==
  <<WsStar, Lit("offsetof(__pyx_CoroutineObject,"), WsStar, Lit("gi_weakreflist),"),
    WsStar, Lit("0,"),
    WsStar, Lit("0,"),
    WsStar, Lit("__pyx_Coroutine_methods,"),
    WsStar, Lit("__pyx_Coroutine_memberlist,"),
    WsStar, Lit("__pyx_Coroutine_getsets,")>>

Repl1 ==
  <<Indent12, "offsetof(__pyx_CoroutineObject,", " ", "gi_weakreflist),">> \o
  <<Indent12, "__Pyx_Coroutine_await,", " ", "/*", " ", "tp_iter", " ", "*/">> \o
  <<Indent12, "(iternextfunc)", " ", "__Pyx_Generator_Next,", " ",
                "/*", " ", "tp_iternext", " ", "*/">> \o
  <<Indent12, "__pyx_Coroutine_methods,">> \o
  <<Indent12, "__pyx_Coroutine_memberlist,">> \o
  <<Indent12, "__pyx_Coroutine_getsets,">> \o
  <<Indent12>>

\* the qualified-name accessor, second re.sub
Pat2 ==
  <<WsStar, Lit(QualnameSig), WsPlus, Lit("*self)"),
    WsStar, Lit("{"),
    WsStar, Lit(QualnameIncref)>>

\* a variant of Repl2 that puts the null check after the increment
Repl2CheckAfter ==
  <<Indent12, QualnameSig, " ", "*self)">> \o
  <<Indent12, "{">> \o
  <<Indent16, QualnameIncref>> \o
  <<Indent16, "if", " ", "(self->gi_qualname", " ", "==", " ", "NULL)", " ",
                "{", " ", "return", " ", "__pyx_empty_unicode;", " ", "}">> \o
  <<Indent12>>

Repl2 ==
  <<Indent12, QualnameSig, " ", "*self)">> \o
  <<Indent12, "{">> \o
  <<Indent16, "if", " ", "(self->gi_qualname", " ", "==", " ", "NULL)", " ",
                "{", " ", "return", " ", "__pyx_empty_unicode;", " ", "}">> \o
  <<Indent16, QualnameIncref>> \o
  <<Indent12>>

\* the plain-name accessor, third re.sub
Pat3 ==
  <<WsStar, Lit(NameSig), WsPlus, Lit("*self)"),
    WsStar, Lit("{"),
    WsStar, Lit(NameIncref)>>

Repl3 ==
  <<Indent12, NameSig, " ", "*self)">> \o
  <<Indent12, "{">> \o
  <<Indent16, "if", " ", "(self->gi_name", " ", "==", " ", "NULL)", " ",
                "{", " ", "return", " ", "__pyx_empty_unicode;", " ", "}">> \o
  <<Indent16, NameIncref>> \o
  <<Indent12>>

\* the index after the blanks of s from i on (a greedy \s*)
RECURSIVE SkipSpace(_, _)
SkipSpace(s, i) ==
  IF i <= Len(s) /\ IsSpace(s[i]) THEN SkipSpace(s, i + 1) ELSE i

\* The index after the match of pat[j..] that starts at s[i], 0 when there is
\* none.  A blank run is always followed by a literal run, so the greedy
\* choice is the only one that can match.
RECURSIVE MatchAt(_, _, _, _)
MatchAt(s, i, pat, j) ==
  IF j > Len(pat) THEN i
  ELSE IF pat[j][1] = "lit"
       THEN IF i <= Len(s) /\ s[i] = pat[j][2]
            THEN MatchAt(s, i + 1, pat, j + 1)
            ELSE 0
       ELSE LET e == SkipSpace(s, i)
            IN IF pat[j] = WsPlus /\ e = i THEN 0 ELSE MatchAt(s, e, pat, j + 1)

\* where the leftmost match of pat in s from index i on starts, 0 when there
\* is none
FirstMatch(s, i, pat) ==
  LET starts == {k \in i..Len(s) : MatchAt(s, k, pat, 1) # 0}
  IN IF starts = {} THEN 0
     ELSE CHOOSE k \in starts : \A other \in starts : k <= other

\* re.sub(pat, repl, s) from index i on: every leftmost non-overlapping match
\* is replaced by repl, the text between the matches is kept
RECURSIVE Sub(_, _, _, _)
Sub(pat, repl, s, i) ==
  LET k == FirstMatch(s, i, pat)
  IN IF k = 0 THEN SubSeq(s, i, Len(s))
     ELSE SubSeq(s, i, k - 1) \o repl \o Sub(pat, repl, s, MatchAt(s, k, pat, 1))

\* a variant of PatchText without the third re.sub
PatchTextTwoRules(src) == Sub(Pat2, Repl2, Sub(Pat1, Repl1, src, 1), 1)

\* the three re.sub calls of _patch_cfile, in order
PatchText(src) ==
  Sub(Pat3, Repl3, Sub(Pat2, Repl2, Sub(Pat1, Repl1, src, 1), 1), 1)

\* ------------------------------------------------- what the transpiler emits
\* n blanks, spaces and newlines in turn
Ws(n) == [i \in 1..n |-> IF i % 2 = 1 THEN " " ELSE "\n"]

\* the coroutine type's field initializers as emitted, n blanks between the runs
UnpatchedBlock(n) ==
  <<"offsetof(__pyx_CoroutineObject,">> \o Ws(n) \o <<"gi_weakreflist),">> \o
  Ws(n) \o <<"0,">> \o Ws(n) \o <<"0,">> \o
  Ws(n) \o <<"__pyx_Coroutine_methods,">> \o
  Ws(n) \o <<"__pyx_Coroutine_memberlist,">> \o
  Ws(n) \o <<"__pyx_Coroutine_getsets,">>

\* an accessor as emitted: m blanks between the type and *self, n elsewhere
UnpatchedAccessor(sig, incref, n, m) ==
  <<sig>> \o Ws(m) \o <<"*self)">> \o Ws(n) \o <<"{">> \o Ws(n) \o <<incref>>

\* a generated file without a coroutine type, and one with it
DocPlain == <<"x;", "\n">>
DocCoroutine ==
  <<"x;">> \o Ws(1) \o UnpatchedBlock(1) \o <<"\n", "x;">> \o
  Ws(2) \o UnpatchedAccessor(QualnameSig, QualnameIncref, 1, 1) \o
  Ws(1) \o UnpatchedAccessor(NameSig, NameIncref, 1, 1) \o <<"\n">>
\* the C text the transpiler emits for a source: protocol.pyx declares
\* coroutines, the other source does not
Generated(cfile) ==
  IF cfile = <<"protocol", ".c">> THEN DocCoroutine ELSE DocPlain

\* ------------------------------------------------------------------ inputs
\* The sources an extension may declare.  setup() declares recordobj.c and
\* protocol.pyx.
SourceNames ==
  {<<"recordobj", ".c">>, <<"protocol", ".pyx">>, <<"codecs", ".pyx">>}
SourceLists == UNION {[1..n -> SourceNames] : n \in 1..MaxSources}
HandWritten == {<<"recordobj", ".c">>}
CFiles == {CFileOf(sfile) : sfile \in SourceNames}

\* Cython.__version__ of the installed Cython, when there is one
CythonVersions ==
  {<<"0", ".", "9">>, <<"0", ".", "2", "3", ".", "4">>, <<"0", ".", "2", "4">>,
   <<"3", ".", "0">>}
CythonEnvs ==
  {[installed |-> FALSE, version |-> <<>>]} \cup
  {[installed |-> TRUE, version |-> v] : v \in CythonVersions}

\* values of --cython-directives on the command line
DirectiveValues ==
  {<<"a", "=", "x">>, <<"a", "=", "F", "a", "l", "s", "e">>}
AnnotateValues == {"None", "True"}

\* the record of a finalize_options call that has not happened
NoCall ==
  [outcome |-> "none", always |-> FALSE, need |-> FALSE, cfiles |-> <<>>, scanned |-> <<>>,
   before |-> <<>>, existed |-> {}, mtimeBefore |-> <<>>, imported |-> FALSE, parsed |-> FALSE,
   directiveText |-> None, directives |-> <<>>, invoked |-> FALSE, written |-> {}, mtimeAfter |-> <<>>,
   patched |-> {}]

\* --------------------------------------------------------------- operations
\* After construction: Command.__init__ has called initialize_options once.
InitCommon ==
  /\ initialized = FALSE
  /\ cython_always = FALSE
  /\ cython_annotate = "None"
  /\ cython_directives = None
  /\ call = NoCall
  /\ readSrc = [cfile \in CFiles |-> <<>>]
  /\ calls = 0
  /\ invocations = 0

Init ==
  /\ InitCommon
  /\ ext_modules \in [1..NumExtensions -> SourceLists]
  /\ exists \in {HandWritten \cup X : X \in SUBSET (CFiles \ HandWritten)}
  /\ mtime = [cfile \in CFiles |-> IF cfile \in exists THEN 1 ELSE 0]
  /\ content = [cfile \in CFiles |-> IF cfile \in exists THEN DocPlain ELSE <<>>]
  /\ cython \in CythonEnvs

\* initialize_options: returns at once when _initialized is set, else sets
\* the three options to their defaults
InitializeOptions ==
  /\ IF initialized
     THEN UNCHANGED <<cython_always, cython_annotate, cython_directives>>
     ELSE /\ cython_always' = FALSE
          /\ cython_annotate' = "None"
          /\ cython_directives' = None
  /\ UNCHANGED <<initialized, ext_modules, exists, mtime, content, cython,
                 call, readSrc, calls, invocations>>

\* the frontend stores the command line's options on the command object
SetOptions ==
  /\ \E a \in BOOLEAN, n \in AnnotateValues, d \in DirectiveValues :
       /\ cython_always' = a
       /\ cython_annotate' = n
       /\ cython_directives' = d
  /\ UNCHANGED <<initialized, ext_modules, exists, mtime, content, cython,
                 call, readSrc, calls, invocations>>

\* cythonize(): the modules it returns, every .pyx source replaced by its C file
CythonizeModules(mods) ==
  [e \in 1..Len(mods) |->
     [i \in 1..Len(mods[e]) |->
        IF EndsWithPyx(mods[e][i]) THEN CFileOf(mods[e][i]) ELSE mods[e][i]]]

\* finalize_options raises before cythonize() is reached: the sources the loop
\* rewrote stay rewritten, no file is touched
Raise(outcome, imported, parsed, directives) ==
  /\ ext_modules' = ScanModules(ext_modules)
  /\ call' = [NoCall EXCEPT !.outcome = outcome,
                            !.always = cython_always,
                            !.need = TRUE,
                            !.cfiles = ScanCFiles(ext_modules),
                            !.scanned = ScanModules(ext_modules),
                            !.before = ext_modules,
                            !.existed = exists,
                            !.mtimeBefore = mtime,
                            !.imported = imported,
                            !.parsed = parsed,
                            !.directiveText = cython_directives,
                            !.directives = directives]
  /\ UNCHANGED <<exists, mtime, content, readSrc, invocations>>

\* the timestamp of the latest write to any file
RECURSIVE MaxOf(_)
MaxOf(S) ==
  IF S = {} THEN 0
  ELSE LET x == CHOOSE y \in S : TRUE
           m == MaxOf(S \ {x})
       IN IF x > m THEN x ELSE m
Latest == MaxOf({mtime[cfile] : cfile \in CFiles})

\* cythonize() and the patch loop after it.  cythonize() writes every C file
\* that is missing and whichever existing ones it finds out of date.  The
\* writes of one call carry one timestamp: that of the latest write before
\* the call when the file system's clock has not moved on since, else a
\* later one.
CythonizeAndPatch(directives) ==
  LET scanned == ScanModules(ext_modules)
      cfiles == ScanCFiles(ext_modules)
      targets == {CFileOf(sfile) : sfile \in {s \in Entries(scanned) : EndsWithPyx(s)}}
  IN \E rewritten \in SUBSET (targets \cap exists), now \in {Latest, Latest + 1} :
       LET written == (targets \ exists) \cup rewritten
           mtimeAfter == [cfile \in CFiles |->
                            IF cfile \in written THEN now ELSE mtime[cfile]]
           generated == [cfile \in CFiles |->
                           IF cfile \in written THEN Generated(cfile)
                           ELSE content[cfile]]
           patched == PatchGate(cfiles, mtimeAfter)
       IN /\ ext_modules' = CythonizeModules(scanned)
          /\ exists' = exists \cup written
          /\ mtime' = [cfile \in CFiles |->
                         IF cfile \in patched THEN now ELSE mtimeAfter[cfile]]
          /\ content' = [cfile \in CFiles |->
                           IF cfile \in patched THEN PatchText(generated[cfile])
                           ELSE generated[cfile]]
          /\ readSrc' = [cfile \in CFiles |->
                           IF cfile \in patched THEN generated[cfile]
                           ELSE readSrc[cfile]]
          /\ invocations' = invocations + 1
          /\ call' = [outcome |-> "ok", always |-> cython_always,
                      need |-> TRUE, cfiles |-> cfiles,
                      scanned |-> scanned, before |-> ext_modules,
                      existed |-> exists, mtimeBefore |-> mtime,
                      imported |-> TRUE, parsed |-> TRUE,
                      directiveText |-> cython_directives,
                      directives |-> directives, invoked |-> TRUE,
                      written |-> written, mtimeAfter |-> mtimeAfter,
                      patched |-> patched]

\* finalize_options
FinalizeOptions ==
  /\ calls < MaxCalls
  /\ calls' = calls + 1
  /\ UNCHANGED <<initialized, cython_always, cython_annotate, cython_directives,
                 cython>>
  /\ IF initialized
     THEN /\ call' = [NoCall EXCEPT !.outcome = "returned"]
          /\ UNCHANGED <<ext_modules, exists, mtime, content, readSrc, invocations>>
     ELSE IF ~NeedCythonize(ext_modules)
     THEN /\ ext_modules' = ScanModules(ext_modules)
          /\ call' = [NoCall EXCEPT !.outcome = "ok",
                                    !.always = cython_always,
                                    !.cfiles = ScanCFiles(ext_modules),
                                    !.scanned = ScanModules(ext_modules),
                                    !.before = ext_modules,
                                    !.existed = exists,
                                    !.mtimeBefore = mtime]
          /\ UNCHANGED <<exists, mtime, content, readSrc, invocations>>
     ELSE IF ~cython.installed
     THEN Raise("RuntimeError: please install Cython", TRUE, FALSE, <<>>)
     ELSE IF VersionRejected(cython.version)
     THEN Raise("RuntimeError: Cython version 0.24 or greater", TRUE, FALSE, <<>>)
     ELSE IF ParseDirectives(cython_directives).raised
     THEN Raise("AttributeError", TRUE, TRUE, ParseDirectives(cython_directives).map)
     ELSE CythonizeAndPatch(ParseDirectives(cython_directives).map)

Next == InitializeOptions \/ SetOptions \/ FinalizeOptions

Spec == Init /\ [][Next]_vars

\* ------------------------------------------- the directive parser by itself
\* The setup() call's extension and a current Cython, given the files there are.
InitProgram ==
  /\ InitCommon
  /\ ext_modules = <<<<<<"recordobj", ".c">>, <<"protocol", ".pyx">>>>>>
  /\ mtime = [cfile \in CFiles |-> IF cfile \in exists THEN 1 ELSE 0]
  /\ cython = [installed |-> TRUE, version |-> <<"3", ".", "0">>]

DirectiveChunks ==
  {<<"a">>, <<"b">>, <<"=">>, <<",">>, <<"x">>,
   <<"F", "a", "l", "s", "e">>, <<"t", "r", "u", "E">>}

RECURSIVE Flatten(_)
Flatten(chunks) ==
  IF chunks = <<>> THEN <<>> ELSE Head(chunks) \o Flatten(Tail(chunks))

\* "a=False,b=True,c=x"
ExampleDirectives ==
  <<"a", "=", "F", "a", "l", "s", "e", ",", "b", "=", "T", "r", "u", "e", ",",
    "c", "=", "x">>

DirectiveInputs ==
  {ExampleDirectives} \cup
  {Flatten(chunks) :
     chunks \in UNION {[1..n -> DirectiveChunks] : n \in 0..MaxDirectiveChunks}}

\* the frontend stores --cython-directives=d, given once on the command line,
\* on the command object
SetDirectives ==
  /\ cython_directives = None
  /\ \E d \in DirectiveInputs : cython_directives' = d
  /\ UNCHANGED <<initialized, cython_always, cython_annotate, ext_modules,
                 exists, mtime, content, cython, call, readSrc, calls,
                 invocations>>

InitDirectives ==
  /\ exists = HandWritten
  /\ InitProgram
  /\ content = [cfile \in CFiles |-> IF cfile \in exists THEN DocPlain ELSE <<>>]

NextDirectives == SetDirectives \/ FinalizeOptions

SpecDirectives == InitDirectives /\ [][NextDirectives]_vars

\* ------------------------------------------------------ the patch by itself
\* a piece of a generated file: an unpatched shape with its blanks, the three
\* of them in a row, a blank, other text, or an accessor that is patched already
Chunk(kind, n, m) ==
  CASE kind = "block" -> UnpatchedBlock(n)
    [] kind = "unit" ->
         UnpatchedBlock(n) \o Ws(n) \o
         UnpatchedAccessor(QualnameSig, QualnameIncref, n, m) \o Ws(n) \o
         UnpatchedAccessor(NameSig, NameIncref, n, m)
    [] kind = "qualname" -> UnpatchedAccessor(QualnameSig, QualnameIncref, n, m)
    [] kind = "name" -> UnpatchedAccessor(NameSig, NameIncref, n, m)
    [] kind = "blank" -> <<" ">>
    [] kind = "text" -> <<"x;">>
    [] kind = "patched" -> Repl2

ChunkKinds ==
  {"block", "qualname", "name", "unit", "blank", "text", "patched"}
Layouts == UNION {[1..k -> ChunkKinds] : k \in 0..MaxChunks}

GeneratedText(layout, n, m) ==
  Flatten([i \in 1..Len(layout) |-> Chunk(layout[i], n, m)])

InitPatch ==
  /\ exists = HandWritten \cup {<<"protocol", ".c">>}
  /\ InitProgram
  /\ \E layout \in Layouts, n \in 0..MaxWs, m \in 0..MaxWs :
       content = [cfile \in CFiles |->
                    IF cfile = <<"protocol", ".c">> THEN GeneratedText(layout, n, m)
                    ELSE IF cfile \in exists THEN DocPlain ELSE <<>>]

\* _patch_cfile(cfile), for the C file of a .pyx source: read the file, apply
\* the three rewrites, write it back
PatchFile ==
  \E cfile \in exists \ HandWritten, stamp \in {Latest, Latest + 1} :
    /\ stamp <= MaxCalls + 1
    /\ readSrc' = [readSrc EXCEPT ![cfile] = content[cfile]]
    /\ content' = [content EXCEPT ![cfile] = PatchText(content[cfile])]
    /\ mtime' = [mtime EXCEPT ![cfile] = stamp]
    /\ UNCHANGED <<initialized, cython_always, cython_annotate, cython_directives,
                   ext_modules, exists, cython, call, calls, invocations>>

NextPatch == PatchFile

SpecPatch == InitPatch /\ [][NextPatch]_vars

\* ============================================================ the claims
\* a finalize_options call has happened, and call holds its record
Called == call.outcome # "none"
Marked == DOMAIN call.cfiles
Failed == call.outcome \notin {"none", "ok", "returned"}

\* the .pyx entries the latest call found declared, as <<extension, index>>
PyxEntries ==
  {ei \in (1..Len(call.before)) \X (1..MaxSources + 1) :
     /\ ei[2] <= Len(call.before[ei[1]])
     /\ EndsWithPyx(call.before[ei[1]][ei[2]])}

\* C1 (as stated): a finalize_options call that follows a successful one on the
\* same command object, with the options as they were, invokes the transpiler
\* no more and patches no file.
CE_C1_SecondCallDoesNothing ==
  [][(call.outcome = "ok" /\ call.always = cython_always /\ calls' = calls + 1)
       => (invocations' = invocations /\ ~call'.invoked /\ call'.patched = {})]_vars

\* C2 (as stated): an initialize_options call after construction leaves
\* cython_always, cython_annotate and cython_directives as they are.
CE_C2_LaterInitializeIsNoOp ==
  [][InitializeOptions
       => UNCHANGED <<cython_always, cython_annotate, cython_directives>>]_vars

\* C3 (as stated): the initialized flag is true in every state after a
\* finalize_options call that completed successfully.
CE_C3_InitializedAfterFinalize == (call.outcome = "ok") => initialized

\* C5: for every declared .pyx entry the staleness loop either rewrites the
\* entry to the existing companion file (flag unset), leaving it unmarked and
\* without a baseline, or marks it, leaves the entry alone and records as its
\* baseline the companion's timestamp, 0 when the companion does not exist.
T_C5_Staleness ==
  Called =>
    \A ei \in PyxEntries :
      LET sfile == call.before[ei[1]][ei[2]]
          cfile == CFileOf(sfile)
          entry == call.scanned[ei[1]][ei[2]]
      IN IF cfile \in call.existed /\ ~call.always
         THEN entry = cfile /\ cfile \notin Marked
         ELSE /\ call.need
              /\ entry = sfile
              /\ cfile \in Marked
              /\ call.cfiles[cfile] =
                   IF cfile \in call.existed THEN call.mtimeBefore[cfile] ELSE 0

\* a call under the flag that found a companion file and recorded its timestamp
W_C5_ForcedWithCompanion ==
  /\ Called /\ call.always
  /\ \E cfile \in Marked : cfile \in call.existed /\ call.cfiles[cfile] > 0
  /\ PyxEntries # {}

\* C6: a file is patched exactly when it has a baseline and its timestamp
\* after the transpiler invocation differs from it; a companion that existed
\* and was not rewritten, and one a source entry was rewritten to, are not
\* patched.
T_C6_PatchGate ==
  /\ ~call.invoked => call.patched = {}
  /\ call.invoked =>
       /\ \A cfile \in CFiles :
            cfile \in call.patched <=>
              (cfile \in Marked /\ call.mtimeAfter[cfile] # call.cfiles[cfile])
       /\ \A cfile \in call.existed \ call.written : cfile \notin call.patched
       /\ \A ei \in PyxEntries :
            call.scanned[ei[1]][ei[2]] = CFileOf(call.before[ei[1]][ei[2]])
              => CFileOf(call.before[ei[1]][ei[2]]) \notin call.patched
       /\ \A cfile \in call.patched : content[cfile] = PatchText(readSrc[cfile])

\* one marked file was rewritten and patched, another was left alone
W_C6_OnePatchedOneNot ==
  /\ call.invoked
  /\ call.patched # {}
  /\ \E cfile \in Marked \ call.patched : cfile \in call.existed

\* version ordering: the dotted numbers of a version, compared number by number
RECURSIVE Number(_, _)
Number(digits, acc) ==
  IF digits = <<>> THEN acc
  ELSE Number(Tail(digits), acc * 10 + (Ord(Head(digits)) - Ord("0")))
VersionParts(v) ==
  LET parts == Split(v, ".") IN [i \in 1..Len(parts) |-> Number(parts[i], 0)]
RECURSIVE PartsLess(_, _)
PartsLess(a, b) ==
  IF b = <<>> THEN FALSE
  ELSE IF a = <<>> THEN TRUE
  ELSE IF Head(a) # Head(b) THEN Head(a) < Head(b)
  ELSE PartsLess(Tail(a), Tail(b))
OlderThan(v, w) == PartsLess(VersionParts(v), VersionParts(w))

\* C9 (as stated): when regeneration is needed and Cython is missing or older
\* than 0.24 in version ordering, finalize_options fails and neither invokes
\* the transpiler nor patches a file.
CE_C9_OldVersionsRejected ==
  (Called /\ call.need /\
     (~cython.installed \/ OlderThan(cython.version, MinVersionText)))
    => (Failed /\ ~call.invoked /\ call.patched = {})

Expected(v) ==
  IF Lower(v) = FalseText THEN PyBool("False")
  ELSE IF Lower(v) = TrueText THEN PyBool("True")
  ELSE PyStr(v)

\* a directive string of one or more key=value tokens, each with a key
WellFormed(d) ==
  /\ d # None
  /\ \A i \in 1..Len(Split(d, ",")) :
       /\ Partition(Split(d, ",")[i], "=")[2] # <<>>
       /\ Partition(Split(d, ",")[i], "=")[1] # <<>>

\* C4 (as stated): parsing a directive string of comma-separated key=value
\* tokens does not fail, and maps each key to false or true when its value is
\* "false" or "true" in any case, and to the value's text otherwise.
CE_C4_ParsingNeverFails ==
  (call.parsed /\ WellFormed(call.directiveText)) =>
    LET tokens == Split(call.directiveText, ",")
        key(i) == Partition(tokens[i], "=")[1]
        value(i) == Partition(tokens[i], "=")[3]
    IN /\ call.outcome # "AttributeError"
       /\ \A i \in 1..Len(tokens) :
            (\A j \in (i + 1)..Len(tokens) : key(j) # key(i)) =>
              /\ key(i) \in DOMAIN call.directives
              /\ call.directives[key(i)] = Expected(value(i))

\* the runs of s without its blanks
StripWs(s) == SelectSeq(s, LAMBDA c : ~IsSpace(c))

Contains(s, sub) ==
  \E i \in 1..(Len(s) - Len(sub) + 1) : SubSeq(s, i, i + Len(sub) - 1) = sub

\* the runs of toks stand in s from index i on, in order, with nothing but
\* blanks between them, at least gaps[k] of them after the k-th run
RECURSIVE ShapeAt(_, _, _, _, _)
ShapeAt(s, i, toks, gaps, k) ==
  IF k > Len(toks) THEN TRUE
  ELSE LET j == IF k = 1 THEN i ELSE SkipSpace(s, i)
       IN /\ (k > 1 => j - i >= gaps[k - 1])
          /\ j <= Len(s)
          /\ s[j] = toks[k]
          /\ ShapeAt(s, j + 1, toks, gaps, k + 1)

HasShape(s, toks, gaps) == \E i \in 1..Len(s) : ShapeAt(s, i, toks, gaps, 1)

BlockRuns ==
  <<"offsetof(__pyx_CoroutineObject,", "gi_weakreflist),", "0,", "0,",
    "__pyx_Coroutine_methods,", "__pyx_Coroutine_memberlist,",
    "__pyx_Coroutine_getsets,">>
AccessorRuns(sig, incref) == <<sig, "*self)", "{", incref>>

\* any amount of blanks between the runs
AnyGaps(toks) == [k \in 1..(Len(toks) - 1) |-> 0]
\* any amount, but at least one blank between the type name and *self
SignatureGap(toks) == [k \in 1..(Len(toks) - 1) |-> IF k = 1 THEN 1 ELSE 0]

HasUnpatchedBlock(s) == HasShape(s, BlockRuns, AnyGaps(BlockRuns))
HasUnpatchedAccessor(s, sig, incref) ==
  HasShape(s, AccessorRuns(sig, incref), SignatureGap(AccessorRuns(sig, incref)))
HasAccessorAnyGaps(s, sig, incref) ==
  HasShape(s, AccessorRuns(sig, incref), AnyGaps(AccessorRuns(sig, incref)))

\* the two slot initializers stand right after the weak-reference-list
\* initializer and before the methods field
SlotsInserted(s) ==
  Contains(StripWs(s),
           <<"gi_weakreflist),", "__Pyx_Coroutine_await,", "/*", "tp_iter", "*/",
             "(iternextfunc)", "__Pyx_Generator_Next,", "/*", "tp_iternext", "*/",
             "__pyx_Coroutine_methods,">>)

\* the accessor returns the empty-text singleton on NULL right before its
\* reference-count increment
Guarded(s, sig, field, incref) ==
  Contains(StripWs(s),
           <<sig, "*self)", "{", "if", field, "==", "NULL)", "{", "return",
             "__pyx_empty_unicode;", "}", incref>>)

Patched(s) ==
  /\ SlotsInserted(s)
  /\ Guarded(s, QualnameSig, "(self->gi_qualname", QualnameIncref)
  /\ Guarded(s, NameSig, "(self->gi_name", NameIncref)

\* C7: patching a patched text changes nothing, and a text with none of the
\* three unpatched shapes is returned as it is.
T_C7_PatchIdempotent ==
  \A cfile \in exists \ HandWritten :
    LET t == content[cfile]
    IN /\ PatchText(PatchText(t)) = PatchText(t)
       /\ (/\ ~HasUnpatchedBlock(t)
           /\ ~HasUnpatchedAccessor(t, QualnameSig, QualnameIncref)
           /\ ~HasUnpatchedAccessor(t, NameSig, NameIncref))
            => PatchText(t) = t

\* a file with unpatched shapes has been patched, and the patch changed it
W_C7_PatchedOnce ==
  \E cfile \in exists \ HandWritten :
    /\ HasUnpatchedBlock(readSrc[cfile])
    /\ HasUnpatchedAccessor(readSrc[cfile], QualnameSig, QualnameIncref)
    /\ content[cfile] # readSrc[cfile]
    /\ PatchText(content[cfile]) = content[cfile]

====
